---- MODULE Spec2Model ----
(***************************************************************************)
(* Per-channel playback engine of the HLS streaming server                 *)
(* (src/unnamed/part_001, lines 984-2134): one channel, its two transcoder *)
(* slots, the ad loop, preload / play-next transitions, the publisher and  *)
(* the persisted catalog.                                                  *)
(*                                                                         *)
(* Node.js runs every callback to completion, so each action below is one  *)
(* synchronous block of the source, from the event that starts it up to    *)
(* the next await / return.  Timers are abstracted to "pending, may fire". *)
(* Two scheduling facts of the runtime are kept:                           *)
(*   - a promise continuation (microtask) runs before any other event;     *)
(*   - the 'exit' event of a child that was sent SIGKILL is delivered      *)
(*     before any timer of the program (all are >= 500 ms) fires.          *)
(* A transcoder is seen through the files it leaves in the output          *)
(* directory; it writes its master playlist once, with its first stream    *)
(* playlist.  An ffprobe call is an await that always resumes; a schedule  *)
(* is computed from the queue as it is when generateDynamicSchedule        *)
(* returns, and its rows carry titles and the current mark only; the      *)
(* projector with its clock times is modelled on its own (ScheduleSpec),   *)
(* and so are the detector and the publisher on arbitrary contents of the  *)
(* output directory (ObservationSpec).  DrainSpec starts the channel with  *)
(* one queued movie, so that a request can arrive after the queue has      *)
(* drained.  The job records (jobs.json) and the HTTP views are left out.  *)
(***************************************************************************)
EXTENDS Integers, Sequences, FiniteSets, Bags, TLC

\* ---------------------------------------------------------------- bounds
MaxMovies == 2      \* movies that exist in a run
MaxProcs == 3       \* transcoder children spawned in a run
MaxSeg == 2         \* segments of a movie
MaxAdSeg == 3       \* segments the looping ad writes in a run
MaxPNM == 2         \* playNextMovie invocations suspended at the same time
MaxTimers == 2      \* pending timers of one kind
HlsListSize == 2    \* rolling window of the slot playlist (-hls_list_size 6,
                    \* scaled down with the number of segments)
MaxFaults == 1      \* transcoder crashes and readiness timeouts in a run
MaxSchedQueue == 3  \* queue lengths enumerated for the schedule projector
MaxListed == 4      \* segment files of an observed output directory
MaxJobs == 1        \* enqueue requests in a run (BackToBackSpec: one more)

\* ------------------------------------------------------ program constants
REQUIRED_SEGMENTS == 2   \* startFFmpeg: const REQUIRED_SEGMENTS = 2
PublishMinSegments == 2  \* switchActiveStream: segmentMatches.length < 2, validSegments < 2
PublishCheckFirst == 3   \* switchActiveStream: segmentMatches.slice(0, 3)
MinSegmentBytes == 5000  \* stats.size > 5000
SwitchAttempts == 3      \* playNextMovie: for (let i = 0; i < 3; i++)
ScheduleRows == 10       \* generateDynamicSchedule: Math.min(queue.length, 10)
ScheduleGapMs == 1000    \* generateDynamicSchedule: endTime.getTime() + 1000

Slots == {"A", "B"}
Movies == 1..MaxMovies
SegNums == 0..((IF MaxSeg > MaxAdSeg THEN MaxSeg ELSE MaxAdSeg) - 1)
\* size of a finished segment file of the transcoder (large enough)
SegSizes == {MinSegmentBytes + 1}
NoProc == 0              \* null process reference
NoMovie == 0             \* null currentMovie

VARIABLES
  state,      \* channelStates[channelId]
  channel,    \* channels[channelId]: queue, schedule, currentMovie
  disk,       \* channels.json as last written
  procs,      \* every transcoder child spawned so far, with its closures
  timers,     \* pending setTimeout callbacks, by kind
  pnm,        \* bag of suspended playNextMovie invocations
  jobs,       \* processAddMovieJob invocation of each movie
  init,       \* the initializeChannel invocation
  files,      \* per-slot master/stream playlists and segment files
  pub,        \* the public master.m3u8 / stream.m3u8
  inputs,     \* ad file and movie files: ok / missing / unreadable
  faults      \* transcoder crashes and readiness timeouts so far

vars == <<state, channel, disk, procs, timers, pnm, jobs, init, files, pub, inputs,
          faults>>

\* ------------------------------------------------------------ small helpers
Min(a, b) == IF a < b THEN a ELSE b
Take(s, n) == SubSeq(s, 1, Min(n, Len(s)))
RECURSIVE CountValid(_, _)
CountValid(segsOnDisk, names) ==
  IF names = <<>> THEN 0
  ELSE (IF segsOnDisk[Head(names)] > MinSegmentBytes THEN 1 ELSE 0)
       + CountValid(segsOnDisk, Tail(names))

\* a file of the output directory: "none" (absent), "empty" (size 0), "ok"
\* files[s] = [master, stream, list, segs]:
\*   list = segment numbers listed in stream_<s>.m3u8, segs[n] = size of
\*   segment_<s>_n.ts (0: absent)
NoFiles == [master |-> "none", stream |-> "none", list |-> <<>>,
            segs |-> [n \in SegNums |-> 0]]
NoPub == [master |-> "none", stream |-> "none", list |-> <<>>]

\* ------------------------------------------------------------------ world
\* The handlers call each other synchronously (playNextMovie -> preloadNextMovie
\* -> startFFmpeg -> onExit(-1)), so each is written as a function from the
\* program state before the call to the program state after it.
World == [state |-> state, channel |-> channel, disk |-> disk, procs |-> procs,
          timers |-> timers, pnm |-> pnm, files |-> files, pub |-> pub]

Bounded(w) ==
  /\ Len(w.procs) <= MaxProcs
  /\ BagCardinality(w.pnm) <= MaxPNM
  /\ \A k \in DOMAIN w.timers : w.timers[k] <= MaxTimers

\* the step ends: the program state computed by the handler becomes the state
Commit(after) ==
  \E w \in {after} :
    /\ Bounded(w)
    /\ state' = w.state
    /\ channel' = w.channel
    /\ disk' = w.disk
    /\ procs' = w.procs
    /\ timers' = w.timers
    /\ pnm' = w.pnm
    /\ files' = w.files
    /\ pub' = w.pub

\* setTimeout(callback, delay): one more pending timer of that kind
setTimeout(w, kind) == [w EXCEPT !.timers[kind] = @ + 1]

\* fs.writeFileSync(channelsFile, JSON.stringify(channels))
writeChannelsFile(w) == [w EXCEPT !.disk = w.channel]

\* proc.kill('SIGKILL'): the child stops at once, its 'exit' event is pending
kill(w, p) ==
  IF p # NoProc /\ w.procs[p].st = "running"
  THEN [w EXCEPT !.procs[p].st = "killed"]
  ELSE w

\* an invocation suspends at an await / resumes from it
suspend(w, rec) == [w EXCEPT !.pnm = @ (+) SetToBag({rec})]
resume(w, rec) == [w EXCEPT !.pnm = @ (-) SetToBag({rec})]

\* ------------------------------------------------------------- transcoder
\* the closures of one startFFmpeg call: isReady / the detector's interval and
\* deadline (det), and for a preload the promise of preloadNextMovie
\* (res: "no" = unresolved) and its 25 s deadline timer
NewProc(slot, kind, movie) ==
  [slot |-> slot, kind |-> kind, movie |-> movie, st |-> "running", n |-> 0,
   det |-> "poll", res |-> "no", deadline |-> (kind = "movie")]

\* the ad's onExit callback
adOnExit(w, exitCode) ==
  LET w1 == [w EXCEPT !.state.isPlaying = FALSE]
      hasMovies == w.channel.queue # <<>>
  IN IF hasMovies
     THEN setTimeout([w1 EXCEPT !.state.playingAd = FALSE], "playNext")
     ELSE IF exitCode # "-1"
          THEN setTimeout(w1, "playAd")   \* after 1 s
          ELSE setTimeout(w1, "playAd")   \* after 5 s

\* the onExit callback of a movie transcoder (preloadNextMovie)
movieOnExit(w) ==
  setTimeout([w EXCEPT !.state.nextProcess = NoProc,
                       !.state.isPlaying = FALSE,
                       !.state.isPreloading = FALSE], "playNext")

\* resolveOnce(value) of the preload promise of child p
resolveOnce(w, p, value) ==
  IF w.procs[p].res = "no"
  THEN [w EXCEPT !.procs[p].res = value, !.state.isPreloading = FALSE]
  ELSE w

\* variant: the detector requires every listed segment to be playable
checkSegmentsReadyAll(f) ==
  /\ f.master = "ok"
  /\ f.stream = "ok"
  /\ Len(f.list) >= REQUIRED_SEGMENTS
  /\ CountValid(f.segs, f.list) >= Len(f.list)

\* checkSegmentsReady of the Readiness Detector, on the files of one slot
checkSegmentsReady(f) ==
  /\ f.master = "ok"
  /\ f.stream = "ok"
  /\ Len(f.list) >= REQUIRED_SEGMENTS
  /\ CountValid(f.segs, Take(f.list, REQUIRED_SEGMENTS)) >= REQUIRED_SEGMENTS

\* the manual verification of the preload deadline (existence only, no size
\* check of the playlists)
manualCheck(f) ==
  /\ f.master # "none"
  /\ f.stream # "none"
  /\ Len(f.list) >= 2
  /\ CountValid(f.segs, Take(f.list, 2)) >= 2

\* ---------------------------------------------------------------- publisher
\* variant: only the first two referenced segments are examined
SlotVerifiedFirstTwo(f) ==
  /\ f.master = "ok"
  /\ f.stream = "ok"
  /\ f.list # <<>>
  /\ Len(f.list) >= PublishMinSegments
  /\ CountValid(f.segs, Take(f.list, PublishMinSegments)) >= PublishMinSegments

\* the verification steps of switchActiveStream
SlotVerified(f) ==
  /\ f.master = "ok"
  /\ f.stream = "ok"
  /\ f.list # <<>>
  /\ Len(f.list) >= PublishMinSegments
  /\ CountValid(f.segs, Take(f.list, PublishCheckFirst)) >= PublishMinSegments

PublicCopy(toSlot, f) == [master |-> toSlot, stream |-> toSlot, list |-> f.list]

\* variant: the copy is made without the verification steps
switchActiveStreamUnverified(w, toSlot) ==
  [w |-> [w EXCEPT !.pub = PublicCopy(toSlot, w.files[toSlot])], ret |-> TRUE]

\* variant: the public playlists are removed before the slot is verified
switchActiveStreamUnlinkFirst(w, toSlot) ==
  IF SlotVerified(w.files[toSlot])
  THEN [w |-> [w EXCEPT !.pub = PublicCopy(toSlot, w.files[toSlot])], ret |-> TRUE]
  ELSE [w |-> [w EXCEPT !.pub = NoPub], ret |-> FALSE]

\* returns the program state after the call and the value returned
switchActiveStream(w, toSlot) ==
  IF SlotVerified(w.files[toSlot])
  THEN [w |-> [w EXCEPT !.pub = PublicCopy(toSlot, w.files[toSlot])], ret |-> TRUE]
  ELSE [w |-> w, ret |-> FALSE]

\* --------------------------------------------------------------- controller
HeadMovie(w) == Head(w.channel.queue)

\* variant: the ad is spawned on the slot that is not published
playAdOnNextSlot(w) ==
  IF w.channel.queue # <<>> THEN w
  ELSE IF w.state.isPlaying \/ w.state.playingAd THEN w
  ELSE IF inputs.ad = "missing" THEN setTimeout(w, "playAd")
  ELSE
    LET w1 == [w EXCEPT !.state.isPlaying = TRUE, !.state.playingAd = TRUE]
        w2 == [kill(w1, w1.state.currentProcess) EXCEPT !.state.currentProcess = NoProc]
    IN IF inputs.ad # "ok"
       THEN [adOnExit(w2, "-1") EXCEPT !.state.currentProcess = NoProc]
       ELSE [w2 EXCEPT !.procs = Append(@, NewProc(w2.state.nextSlot, "ad", NoMovie)),
                       !.state.currentProcess = Len(w2.procs) + 1]

playAd(w) ==
  IF w.channel.queue # <<>> THEN w
  ELSE IF w.state.isPlaying \/ w.state.playingAd THEN w
  ELSE IF inputs.ad = "missing" THEN setTimeout(w, "playAd")
  ELSE
    LET w1 == [w EXCEPT !.state.isPlaying = TRUE, !.state.playingAd = TRUE]
        w2 == [kill(w1, w1.state.currentProcess) EXCEPT !.state.currentProcess = NoProc]
    IN IF inputs.ad # "ok"
       THEN \* startFFmpeg: onExit(-1), return null
            [adOnExit(w2, "-1") EXCEPT !.state.currentProcess = NoProc]
       ELSE [w2 EXCEPT !.procs = Append(@, NewProc(w2.state.activeSlot, "ad", NoMovie)),
                       !.state.currentProcess = Len(w2.procs) + 1]

\* preloadNextMovie up to its return or to the creation of its promise:
\* ret is "true", "false", or "pending" (a child was spawned: pid)
preloadNextMovie(w) ==
  IF w.channel.queue = <<>> THEN [w |-> w, ret |-> "false", pid |-> NoProc]
  ELSE IF w.state.isPreloading THEN [w |-> w, ret |-> "false", pid |-> NoProc]
  ELSE IF w.state.preloadReady THEN [w |-> w, ret |-> "true", pid |-> NoProc]
  ELSE IF inputs.movie[HeadMovie(w)] = "missing"
       THEN [w |-> w, ret |-> "false", pid |-> NoProc]
  ELSE
    LET nextMovie == HeadMovie(w)
        w1 == [w EXCEPT !.state.preloadReady = FALSE, !.state.isPreloading = TRUE]
    IN IF inputs.movie[nextMovie] # "ok"
       THEN \* startFFmpeg: onExit(-1), return null; then resolveOnce(false)
            [w |-> [movieOnExit(w1) EXCEPT !.state.nextProcess = NoProc,
                                           !.state.isPreloading = FALSE],
             ret |-> "false", pid |-> NoProc]
       ELSE [w |-> [w1 EXCEPT
                      !.procs = Append(@, NewProc(w1.state.nextSlot, "movie", nextMovie)),
                      !.state.nextProcess = Len(w1.procs) + 1],
             ret |-> "pending", pid |-> Len(w1.procs) + 1]

\* the schedule rows (title and current mark; the clock times are left out):
\* the current entry, then the first ScheduleRows movies of the queue
Rows(q) == [i \in 1..Len(q) |-> [title |-> q[i], current |-> FALSE]]
generateDynamicSchedule(w, currentTitle) ==
  (IF currentTitle # NoMovie
   THEN <<[title |-> currentTitle, current |-> TRUE]>> ELSE <<>>)
  \o Rows(Take(w.channel.queue, ScheduleRows))

\* variant: the catalog is written before the head is removed
pnmFinishPersistFirst(w, movieTitle) ==
  LET w1 == [w EXCEPT !.channel.schedule = generateDynamicSchedule(w, movieTitle)]
      w2 == writeChannelsFile(w1)
      w3 == [w2 EXCEPT !.channel.queue = IF @ = <<>> THEN @ ELSE Tail(@)]
  IN IF w3.channel.queue # <<>> THEN setTimeout(w3, "preload") ELSE w3

\* playNextMovie from "channelConfig.queue.shift()" to its end
pnmFinish(w, movieTitle) ==
  LET w1 == [w EXCEPT !.channel.schedule = generateDynamicSchedule(w, movieTitle)]
      w2 == [w1 EXCEPT !.channel.queue = IF @ = <<>> THEN @ ELSE Tail(@)]
      w3 == writeChannelsFile(w2)
  IN IF w3.channel.queue # <<>> THEN setTimeout(w3, "preload") ELSE w3

\* resumed after getVideoDuration: the current-movie metadata, then
\* generateDynamicSchedule, which awaits a probe per queued movie
pnmProbed(w, movieTitle) ==
  LET w1 == [w EXCEPT !.channel.currentMovie = movieTitle]
  IN IF w1.channel.queue = <<>>
     THEN pnmFinish(w1, movieTitle)
     ELSE suspend(w1, [pc |-> "sched", movie |-> movieTitle, pre |-> NoProc, att |-> 0])

\* variant: after the last failed attempt the transition is abandoned
pnmSwitchGivesUp(w, movieTitle, i) ==
  IF i >= SwitchAttempts
  THEN w
  ELSE LET r == switchActiveStream(w, w.state.activeSlot)
       IN IF r.ret
          THEN suspend(r.w, [pc |-> "probe", movie |-> movieTitle, pre |-> NoProc,
                             att |-> 0])
          ELSE suspend(r.w, [pc |-> "switch", movie |-> movieTitle, pre |-> NoProc,
                             att |-> i + 1])

\* one pass of the publication loop: attempt number i (0-based)
pnmSwitch(w, movieTitle, i) ==
  IF i >= SwitchAttempts
  THEN suspend(w, [pc |-> "probe", movie |-> movieTitle, pre |-> NoProc, att |-> 0])
  ELSE LET r == switchActiveStream(w, w.state.activeSlot)
       IN IF r.ret
          THEN suspend(r.w, [pc |-> "probe", movie |-> movieTitle, pre |-> NoProc,
                             att |-> 0])
          ELSE suspend(r.w, [pc |-> "switch", movie |-> movieTitle, pre |-> NoProc,
                             att |-> i + 1])

\* variant: the swap forgets "state.isPlaying = true"
pnmSwapLeavesIsPlaying(w, movieTitle) ==
  LET oldSlot == w.state.activeSlot
      w1 == [w EXCEPT !.state.activeSlot = w.state.nextSlot, !.state.nextSlot = oldSlot]
      w2 == IF w1.state.playingAd /\ w1.state.currentProcess # NoProc
            THEN kill(w1, w1.state.currentProcess) ELSE w1
      w3 == [w2 EXCEPT !.state.currentProcess = w2.state.nextProcess,
                       !.state.nextProcess = NoProc,
                       !.state.playingAd = FALSE,
                       !.state.preloadReady = FALSE]
  IN pnmSwitch(w3, movieTitle, 0)

\* variant: the swap forgets "state.nextSlot = oldSlot"
pnmSwapKeepsNextSlot(w, movieTitle) ==
  LET w1 == [w EXCEPT !.state.activeSlot = w.state.nextSlot]
      w2 == IF w1.state.playingAd /\ w1.state.currentProcess # NoProc
            THEN kill(w1, w1.state.currentProcess) ELSE w1
      w3 == [w2 EXCEPT !.state.currentProcess = w2.state.nextProcess,
                       !.state.nextProcess = NoProc,
                       !.state.playingAd = FALSE,
                       !.state.isPlaying = TRUE,
                       !.state.preloadReady = FALSE]
  IN pnmSwitch(w3, movieTitle, 0)

\* playNextMovie from "const oldSlot = state.activeSlot" to the first
\* publication attempt
pnmSwap(w, movieTitle) ==
  LET oldSlot == w.state.activeSlot
      w1 == [w EXCEPT !.state.activeSlot = w.state.nextSlot, !.state.nextSlot = oldSlot]
      w2 == IF w1.state.playingAd /\ w1.state.currentProcess # NoProc
            THEN kill(w1, w1.state.currentProcess) ELSE w1
      w3 == [w2 EXCEPT !.state.currentProcess = w2.state.nextProcess,
                       !.state.nextProcess = NoProc,
                       !.state.playingAd = FALSE,
                       !.state.isPlaying = TRUE,
                       !.state.preloadReady = FALSE]
  IN pnmSwitch(w3, movieTitle, 0)

\* variant: with an empty queue playNextMovie stops without scheduling playAd
playNextMovieNoAd(w) ==
  IF w.channel.queue = <<>>
  THEN LET w1 == [w EXCEPT !.state.playingAd = FALSE, !.state.isPlaying = FALSE,
                           !.state.preloadReady = FALSE]
           w2 == [kill(w1, w1.state.currentProcess) EXCEPT !.state.currentProcess = NoProc]
       IN w2
  ELSE IF HeadMovie(w) \in inputs.noTitle
  THEN LET w1 == writeChannelsFile([w EXCEPT !.channel.queue = Tail(@)])
       IN setTimeout([w1 EXCEPT !.state.preloadReady = FALSE], "playNext")
  ELSE
    LET movieTitle == HeadMovie(w)
    IN IF ~w.state.preloadReady
       THEN IF w.state.nextProcess # NoProc
            THEN suspend(w, [pc |-> "wait3", movie |-> movieTitle, pre |-> NoProc, att |-> 0])
            ELSE LET r == preloadNextMovie(w)
                 IN IF r.ret = "pending"
                    THEN suspend(r.w, [pc |-> "awaitPreload", movie |-> movieTitle,
                                       pre |-> r.pid, att |-> 0])
                    ELSE IF r.ret = "false" \/ ~r.w.state.preloadReady
                         THEN setTimeout(r.w, "playNext")
                         ELSE pnmSwap(r.w, movieTitle)
       ELSE pnmSwap(w, movieTitle)

\* playNextMovie from its call to its first await or return
playNextMovie(w) ==
  IF w.channel.queue = <<>>
  THEN LET w1 == [w EXCEPT !.state.playingAd = FALSE, !.state.isPlaying = FALSE,
                           !.state.preloadReady = FALSE]
           w2 == [kill(w1, w1.state.currentProcess) EXCEPT !.state.currentProcess = NoProc]
       IN setTimeout(w2, "playAd")
  ELSE IF HeadMovie(w) \in inputs.noTitle
  THEN LET w1 == writeChannelsFile([w EXCEPT !.channel.queue = Tail(@)])
       IN setTimeout([w1 EXCEPT !.state.preloadReady = FALSE], "playNext")
  ELSE
    LET movieTitle == HeadMovie(w)
    IN IF ~w.state.preloadReady
       THEN IF w.state.nextProcess # NoProc
            THEN suspend(w, [pc |-> "wait3", movie |-> movieTitle, pre |-> NoProc, att |-> 0])
            ELSE LET r == preloadNextMovie(w)
                 IN IF r.ret = "pending"
                    THEN suspend(r.w, [pc |-> "awaitPreload", movie |-> movieTitle,
                                       pre |-> r.pid, att |-> 0])
                    ELSE IF r.ret = "false" \/ ~r.w.state.preloadReady
                         THEN setTimeout(r.w, "playNext")
                         ELSE pnmSwap(r.w, movieTitle)
       ELSE pnmSwap(w, movieTitle)

\* playNextMovie resumed with the result of its awaited preloadNextMovie
pnmPreloaded(w, movieTitle, preloaded) ==
  IF ~preloaded \/ ~w.state.preloadReady
  THEN setTimeout(w, "playNext")
  ELSE pnmSwap(w, movieTitle)

\* variant: after the 3 s wait the swap is made without testing preloadReady
pnmWaitedUnchecked(w, movieTitle) == pnmSwap(w, movieTitle)

\* playNextMovie resumed after the 3 s wait for a preload already in flight
pnmWaited(w, movieTitle) ==
  IF ~w.state.preloadReady
  THEN setTimeout(w, "playNext")
  ELSE pnmSwap(w, movieTitle)

\* ------------------------------------------------------- schedule projector
\* Times are instants in milliseconds (Date.getTime()).  formatWATTime prints
\* an instant as the wall-clock hour and minute in Africa/Lagos (UTC+1, no
\* daylight saving time): seconds are dropped and the day is not printed.
WATOffsetMs == 3600000
MsPerMinute == 60000
MinutesPerDay == 1440
MinutesPerHour == 60
formatWATTime(date) ==
  LET m == ((date + WATOffsetMs) \div MsPerMinute) % MinutesPerDay
  IN [hh |-> m \div MinutesPerHour, mm |-> m % MinutesPerHour]

\* a row of the schedule; startAt / endAt are the Date objects the printed
\* times were made from
ScheduleRow(title, startAt, endAt, current) ==
  [title |-> title, startTime |-> formatWATTime(startAt),
   endTime |-> formatWATTime(endAt), current |-> current,
   startAt |-> startAt, endAt |-> endAt]

\* variant: the next row starts at the end of the previous one
RECURSIVE upcomingRowsNoGap(_, _, _)
upcomingRowsNoGap(queue, i, currentTime) ==
  IF i > Min(Len(queue), ScheduleRows) THEN <<>>
  ELSE LET endTime == currentTime + queue[i].duration
       IN <<ScheduleRow(queue[i].title, currentTime, endTime, FALSE)>>
          \o upcomingRowsNoGap(queue, i + 1, endTime)

\* the loop of generateDynamicSchedule from index i (1-based) on
RECURSIVE upcomingRows(_, _, _)
upcomingRows(queue, i, currentTime) ==
  IF i > Min(Len(queue), ScheduleRows) THEN <<>>
  ELSE LET endTime == currentTime + queue[i].duration
       IN <<ScheduleRow(queue[i].title, currentTime, endTime, FALSE)>>
          \o upcomingRows(queue, i + 1, endTime + ScheduleGapMs)

NoInfo == [title |-> NoMovie, startTime |-> 0, endTime |-> 0]
\* generateDynamicSchedule with its clock: now is the value of new Date(),
\* queue holds the title and the probed duration of each movie
generateDynamicScheduleAt(now, queue, currentMovieInfo) ==
  IF currentMovieInfo # NoInfo
  THEN <<ScheduleRow(currentMovieInfo.title, currentMovieInfo.startTime,
                     currentMovieInfo.endTime, TRUE)>>
       \o upcomingRows(queue, 1, currentMovieInfo.endTime + ScheduleGapMs)
  ELSE upcomingRows(queue, 1, now)

\* ------------------------------------------------------------------ initial
InitState == [currentProcess |-> NoProc, nextProcess |-> NoProc,
              activeSlot |-> "A", nextSlot |-> "B",
              isPlaying |-> FALSE, playingAd |-> FALSE,
              preloadReady |-> FALSE, isPreloading |-> FALSE]

FileStatus == {"ok", "missing", "unreadable"}

\* the queues channels.json holds at startup: none, or movies 1..MaxMovies
InitialQueues == {<<>>, [i \in 1..MaxMovies |-> i]}

\* The server has loaded channels.json (the queue left by an earlier run; the
\* file of its head may be gone or unreadable by now) and initializeChannel
\* has wiped the output directory and created the runtime state; its queue
\* test comes next.
Init ==
  /\ state = InitState
  /\ \E q \in InitialQueues :
       /\ channel = [queue |-> q, schedule |-> <<>>, currentMovie |-> NoMovie]
       /\ jobs = [m \in Movies |-> [pc |-> IF m <= Len(q) THEN "initial" ELSE "none",
                                    pre |-> NoProc, cur |-> NoMovie]]
       /\ \E a \in FileStatus, s \in FileStatus :
            inputs = [ad |-> a,
                      movie |-> [m \in Movies |-> IF m = 1 /\ q # <<>> THEN s ELSE "ok"],
                      noTitle |-> {}]
  /\ disk = channel
  /\ procs = <<>>
  /\ timers = [playAd |-> 0, playNext |-> 0, preload |-> 0, adReady |-> 0, adRetry |-> 0]
  /\ pnm = EmptyBag
  /\ init = [pc |-> "start", pre |-> NoProc]
  /\ files = [s \in Slots |-> NoFiles]
  /\ pub = NoPub
  /\ faults = 0

\* --------------------------------------------------------------- scheduling
Pids == 1..Len(procs)
KillPending == \E p \in Pids : procs[p].st = "killed"
Resolved(p) == p # NoProc /\ procs[p].res # "no"
MicrotaskPending ==
  \/ init.pc = "awaitPreload" /\ Resolved(init.pre)
  \/ \E m \in Movies : jobs[m].pc = "awaitPreload" /\ Resolved(jobs[m].pre)
  \/ \E r \in BagToSet(pnm) : r.pc = "awaitPreload" /\ Resolved(r.pre)
\* an event of the event loop can be taken
Quiet == init.pc # "start" /\ ~MicrotaskPending /\ ~KillPending

\* ------------------------------------------------------- initializeChannel
InitializeChannel ==
  /\ init.pc = "start"
  /\ IF channel.queue # <<>>
     THEN LET r == preloadNextMovie(World)
          IN IF r.ret = "pending"
             THEN Commit(r.w) /\ init' = [pc |-> "awaitPreload", pre |-> r.pid]
             ELSE IF r.ret = "true"
                  THEN Commit(r.w) /\ init' = [pc |-> "timer2", pre |-> NoProc]
                  ELSE Commit(playAd(r.w)) /\ init' = [pc |-> "done", pre |-> NoProc]
     ELSE Commit(playAd(World)) /\ init' = [pc |-> "done", pre |-> NoProc]
  /\ UNCHANGED <<jobs, inputs, faults>>

\* "const preloaded = await preloadNextMovie(channelId)" resumes
InitPreloaded ==
  /\ init.pc = "awaitPreload" /\ Resolved(init.pre)
  /\ IF procs[init.pre].res = "true"
     THEN Commit(World) /\ init' = [pc |-> "timer2", pre |-> NoProc]
     ELSE Commit(playAd(World)) /\ init' = [pc |-> "done", pre |-> NoProc]
  /\ UNCHANGED <<jobs, inputs, faults>>

\* the 2 s timer after a successful initial preload
InitTimer2 ==
  /\ Quiet /\ init.pc = "timer2"
  /\ IF state.preloadReady
     THEN Commit(playNextMovie(World)) /\ init' = [pc |-> "done", pre |-> NoProc]
     ELSE Commit(World) /\ init' = [pc |-> "timer3", pre |-> NoProc]
  /\ UNCHANGED <<jobs, inputs, faults>>

InitTimer3 ==
  /\ Quiet /\ init.pc = "timer3"
  /\ Commit(playNextMovie(World))
  /\ init' = [pc |-> "done", pre |-> NoProc]
  /\ UNCHANGED <<jobs, inputs, faults>>

\* ------------------------------------------------------------------- timers
Fire(kind) == [World EXCEPT !.timers[kind] = @ - 1]

PlayAdTimer ==
  /\ Quiet /\ timers.playAd > 0
  /\ Commit(playAd(Fire("playAd")))
  /\ UNCHANGED <<jobs, init, inputs, faults>>

PlayNextTimer ==
  /\ Quiet /\ timers.playNext > 0
  /\ Commit(playNextMovie(Fire("playNext")))
  /\ UNCHANGED <<jobs, init, inputs, faults>>

\* the 10 s timer set at the end of playNextMovie
PreloadTimer ==
  /\ Quiet /\ timers.preload > 0
  /\ LET w == Fire("preload")
     IN IF w.state.nextProcess = NoProc /\ ~w.state.preloadReady
        THEN Commit(preloadNextMovie(w).w)
        ELSE Commit(w)
  /\ UNCHANGED <<jobs, init, inputs, faults>>

\* the ad's onReady, after its 3 s stabilization delay
AdReadyTimer ==
  /\ Quiet /\ timers.adReady > 0
  /\ LET r == switchActiveStream(Fire("adReady"), state.activeSlot)
     IN IF r.ret THEN Commit(r.w) ELSE Commit(setTimeout(r.w, "adRetry"))
  /\ UNCHANGED <<jobs, init, inputs, faults>>

AdRetryTimer ==
  /\ Quiet /\ timers.adRetry > 0
  /\ Commit(switchActiveStream(Fire("adRetry"), state.activeSlot).w)
  /\ UNCHANGED <<jobs, init, inputs, faults>>

\* ------------------------------------------- suspended playNextMovie calls
PnmWaited ==
  \E r \in BagToSet(pnm) :
    /\ Quiet /\ r.pc = "wait3"
    /\ Commit(pnmWaited(resume(World, r), r.movie))
    /\ UNCHANGED <<jobs, init, inputs, faults>>

PnmPreloaded ==
  \E r \in BagToSet(pnm) :
    /\ r.pc = "awaitPreload" /\ Resolved(r.pre)
    /\ Commit(pnmPreloaded(resume(World, r), r.movie, procs[r.pre].res = "true"))
    /\ UNCHANGED <<jobs, init, inputs, faults>>

PnmSwitchRetry ==
  \E r \in BagToSet(pnm) :
    /\ Quiet /\ r.pc = "switch"
    /\ Commit(pnmSwitch(resume(World, r), r.movie, r.att))
    /\ UNCHANGED <<jobs, init, inputs, faults>>

PnmProbed ==
  \E r \in BagToSet(pnm) :
    /\ Quiet /\ r.pc = "probe"
    /\ Commit(pnmProbed(resume(World, r), r.movie))
    /\ UNCHANGED <<jobs, init, inputs, faults>>

PnmScheduled ==
  \E r \in BagToSet(pnm) :
    /\ Quiet /\ r.pc = "sched"
    /\ Commit(pnmFinish(resume(World, r), r.movie))
    /\ UNCHANGED <<jobs, init, inputs, faults>>

\* ------------------------------------------------------ processAddMovieJob
JobsStarted ==
  Cardinality({m \in Movies : jobs[m].pc \notin {"none", "initial"}})
JobTo(m, pc, pre) == jobs' = [jobs EXCEPT ![m].pc = pc, ![m].pre = pre]

\* POST /api/movie/add for movie m whose file exists (the job of a missing
\* file throws before it touches the channel): the probe of its duration,
\* then the push onto the queue and currentInfo; the job then awaits
\* generateDynamicSchedule.
\* A request without movieName gives an untitled entry.
Enqueue(m, titled) ==
  /\ Quiet /\ jobs[m].pc = "none"
  /\ \A k \in Movies : k < m => jobs[k].pc # "none"
  /\ inputs' = [inputs EXCEPT !.noTitle = IF titled THEN @ ELSE @ \cup {m}]
  /\ Commit([World EXCEPT !.channel.queue = Append(@, m)])
  /\ jobs' = [jobs EXCEPT ![m] = [pc |-> "sched", pre |-> NoProc,
                                  cur |-> channel.currentMovie]]
  /\ UNCHANGED <<init, faults>>

StartJob ==
  \E m \in Movies, titled \in BOOLEAN :
    JobsStarted < MaxJobs /\ Enqueue(m, titled)

\* a request with a title: the first one, or a second one sent before the job
\* of the first has ended its 3 s wait
StartBackToBack ==
  \E m \in Movies :
    /\ \/ JobsStarted = 0
       \/ JobsStarted = 1 /\ \E k \in Movies : jobs[k].pc \in {"sched", "wait3"}
    /\ Enqueue(m, TRUE)

\* variant: the first-movie test only asks for a non-empty queue
isFirstMovieNonEmpty(w) == Len(w.channel.queue) >= 1

\* const isFirstMovie = channels[channelId].queue.length === 1
isFirstMovie(w) == Len(w.channel.queue) = 1

\* the schedule is stored, the catalog written, and the first-movie test made
JobScheduled ==
  \E m \in Movies :
    /\ Quiet /\ jobs[m].pc = "sched"
    /\ LET w0 == World
           w1 == writeChannelsFile(
                   [w0 EXCEPT !.channel.schedule =
                      generateDynamicSchedule(w0, jobs[m].cur)])
       IN IF isFirstMovie(w1) /\ w1.state.playingAd
          THEN /\ Commit([kill(w1, w1.state.currentProcess) EXCEPT
                            !.state.currentProcess = NoProc,
                            !.state.playingAd = FALSE,
                            !.state.isPlaying = FALSE,
                            !.state.preloadReady = FALSE,
                            !.state.isPreloading = FALSE])
               /\ JobTo(m, "wait3", NoProc)
          ELSE Commit(w1) /\ JobTo(m, "done", NoProc)
    /\ UNCHANGED <<init, inputs, faults>>

\* after 3 s: every segment_*, stream_* and master_* file is unlinked
JobPrune ==
  \E m \in Movies :
    /\ Quiet /\ jobs[m].pc = "wait3"
    /\ Commit([World EXCEPT !.files = [s \in Slots |-> NoFiles]])
    /\ JobTo(m, "wait2", NoProc)
    /\ UNCHANGED <<init, inputs, faults>>

JobAfterPreload(m, w, ok) ==
  IF ok /\ w.state.preloadReady
  THEN Commit(w) /\ JobTo(m, "wait8", NoProc)
  ELSE Commit(setTimeout(w, "playNext")) /\ JobTo(m, "done", NoProc)

\* after 2 more seconds: preloadNextMovie
JobPreload ==
  \E m \in Movies :
    /\ Quiet /\ jobs[m].pc = "wait2"
    /\ LET r == preloadNextMovie(World)
       IN IF r.ret = "pending"
          THEN Commit(r.w) /\ JobTo(m, "awaitPreload", r.pid)
          ELSE JobAfterPreload(m, r.w, r.ret = "true")
    /\ UNCHANGED <<init, inputs, faults>>

JobPreloaded ==
  \E m \in Movies :
    /\ jobs[m].pc = "awaitPreload" /\ Resolved(jobs[m].pre)
    /\ JobAfterPreload(m, World, procs[jobs[m].pre].res = "true")
    /\ UNCHANGED <<init, inputs, faults>>

\* after 8 more seconds: playNextMovie
JobPlay ==
  \E m \in Movies :
    /\ Quiet /\ jobs[m].pc = "wait8"
    /\ Commit(playNextMovie(World))
    /\ JobTo(m, "done", NoProc)
    /\ UNCHANGED <<init, inputs, faults>>

\* ------------------------------------------------- transcoder child events
\* the 'exit' / 'error' handler clears the detector's interval and deadline; of
\* an exited child only the preload promise and its deadline timer remain
Exited(w, p) == [w EXCEPT !.procs[p].st = "exited", !.procs[p].det = "off",
                          !.procs[p].n = 0, !.procs[p].movie = NoMovie,
                          !.procs[p].slot = "A"]

onExit(w, p, exitCode) ==
  IF w.procs[p].kind = "ad" THEN adOnExit(w, exitCode) ELSE movieOnExit(w)

onReady(w, p) ==
  IF w.procs[p].kind = "ad"
  THEN setTimeout(w, "adReady")
  ELSE resolveOnce([w EXCEPT !.state.preloadReady = TRUE], p, "true")

\* the transcoder finishes segment n of its slot: the segment file, the
\* playlist of the last HlsListSize segments, the master playlist with the
\* first playlist, and the segment that left the window is deleted
WriteSegment(f, n, size) ==
  [master |-> IF n = 0 THEN "ok" ELSE f.master,
   stream |-> "ok",
   list |-> [i \in 1..Min(n + 1, HlsListSize) |-> n - Min(n + 1, HlsListSize) + i],
   segs |-> [k \in SegNums |-> IF k = n THEN size
                               ELSE IF k = n - HlsListSize THEN 0
                               ELSE f.segs[k]]]

\* one observable step of a transcoder: its first REQUIRED_SEGMENTS segments
\* (no reader of the program tells fewer listed segments from none), then one
\* segment at a time
RECURSIVE WriteSegments(_, _, _, _)
WriteSegments(f, n, k, size) ==
  IF k = 0 THEN f ELSE WriteSegments(WriteSegment(f, n, size), n + 1, k - 1, size)

FFmpegWrite ==
  \E p \in Pids, size \in SegSizes :
    /\ Quiet /\ procs[p].st = "running"
    /\ procs[p].n < (IF procs[p].kind = "ad" THEN MaxAdSeg ELSE MaxSeg)
    /\ LET k == IF procs[p].n = 0 THEN REQUIRED_SEGMENTS ELSE 1
       IN Commit([World EXCEPT
                    !.files[procs[p].slot] = WriteSegments(@, procs[p].n, k, size),
                    !.procs[p].n = @ + k])
    /\ UNCHANGED <<jobs, init, inputs, faults>>

\* the movie has been transcoded to its end: exit code 0
MovieEnd ==
  \E p \in Pids :
    /\ Quiet /\ procs[p].st = "running" /\ procs[p].kind = "movie"
    /\ procs[p].n = MaxSeg
    /\ Commit(Exited(onExit(World, p, "0"), p))
    /\ UNCHANGED <<jobs, init, inputs, faults>>

\* the child crashes (1), or it could not be launched (the 'error' event, -1)
ProcCrash ==
  \E p \in Pids, exitCode \in {"1", "-1"} :
    /\ Quiet /\ procs[p].st = "running" /\ faults < MaxFaults
    /\ Commit(Exited(onExit(World, p, exitCode), p))
    /\ faults' = faults + 1
    /\ UNCHANGED <<jobs, init, inputs>>

\* the 'exit' event of a child that was killed
ExitEvent ==
  \E p \in Pids :
    /\ init.pc # "start" /\ ~MicrotaskPending /\ procs[p].st = "killed"
    /\ Commit(Exited(onExit(World, p, "null"), p))
    /\ UNCHANGED <<jobs, init, inputs, faults>>

\* the 500 ms poll of the Readiness Detector sees playable output
DetectorReady ==
  \E p \in Pids :
    /\ Quiet /\ procs[p].st = "running" /\ procs[p].det = "poll"
    /\ checkSegmentsReady(files[procs[p].slot])
    /\ Commit(onReady([World EXCEPT !.procs[p].det = "off"], p))
    /\ UNCHANGED <<jobs, init, inputs, faults>>

\* the detector's 20 s deadline: one final check
DetectorTimeout ==
  \E p \in Pids :
    /\ Quiet /\ procs[p].st = "running" /\ procs[p].det = "poll"
    /\ faults < MaxFaults
    /\ LET w == [World EXCEPT !.procs[p].det = "off"]
       IN IF checkSegmentsReady(files[procs[p].slot])
          THEN Commit(onReady(w, p))
          ELSE Commit(w)
    /\ faults' = faults + 1
    /\ UNCHANGED <<jobs, init, inputs>>

\* the 25 s deadline of preloadNextMovie; the detector of the same child
\* (20 s) has fired or was cancelled by then
PreloadDeadline ==
  \E p \in Pids :
    /\ Quiet /\ procs[p].deadline /\ procs[p].det = "off"
    /\ LET w == [World EXCEPT !.procs[p].deadline = FALSE]
       IN IF ~w.state.preloadReady
          THEN IF manualCheck(w.files[w.state.nextSlot])
               THEN Commit(resolveOnce([w EXCEPT !.state.preloadReady = TRUE], p, "true"))
               ELSE Commit(resolveOnce(w, p, "false"))
          ELSE Commit(w)
    /\ UNCHANGED <<jobs, init, inputs, faults>>

Next ==
  \/ InitializeChannel \/ InitPreloaded \/ InitTimer2 \/ InitTimer3
  \/ PlayAdTimer \/ PlayNextTimer \/ PreloadTimer \/ AdReadyTimer \/ AdRetryTimer
  \/ PnmWaited \/ PnmPreloaded \/ PnmSwitchRetry \/ PnmProbed \/ PnmScheduled
  \/ StartJob \/ JobScheduled \/ JobPrune \/ JobPreload \/ JobPreloaded \/ JobPlay
  \/ FFmpegWrite \/ MovieEnd \/ ProcCrash \/ ExitEvent \/ DetectorReady
  \/ DetectorTimeout
  \/ PreloadDeadline

Spec == Init /\ [][Next]_vars

\* A channel created empty whose ad file is in place, and the events that
\* occur on it when no transcoder crashes and every output is detected before
\* the readiness deadline.  The event loop serves every event that stays
\* pending; an enqueue request may or may not come.
AdLoopInit == Init /\ channel.queue = <<>> /\ inputs.ad = "ok"

LiveNext ==
  \/ InitializeChannel
  \/ PlayAdTimer \/ PlayNextTimer \/ AdReadyTimer \/ AdRetryTimer
  \/ PnmWaited \/ PnmPreloaded \/ PnmSwitchRetry \/ PnmProbed \/ PnmScheduled
  \/ StartJob \/ JobScheduled \/ JobPrune \/ JobPreload \/ JobPreloaded \/ JobPlay
  \/ FFmpegWrite \/ MovieEnd \/ ExitEvent \/ DetectorReady \/ PreloadDeadline

Fairness ==
  /\ WF_vars(InitializeChannel)
  /\ WF_vars(PlayAdTimer) /\ WF_vars(PlayNextTimer)
  /\ WF_vars(AdReadyTimer) /\ WF_vars(AdRetryTimer)
  /\ WF_vars(PnmWaited) /\ WF_vars(PnmPreloaded) /\ WF_vars(PnmSwitchRetry)
  /\ WF_vars(PnmProbed) /\ WF_vars(PnmScheduled)
  /\ WF_vars(JobScheduled) /\ WF_vars(JobPrune) /\ WF_vars(JobPreload)
  /\ WF_vars(JobPreloaded) /\ WF_vars(JobPlay)
  /\ WF_vars(FFmpegWrite) /\ WF_vars(MovieEnd) /\ WF_vars(ExitEvent)
  /\ WF_vars(DetectorReady) /\ WF_vars(PreloadDeadline)

LiveSpec == AdLoopInit /\ [][LiveNext]_vars /\ Fairness

\* The same channel with no crash and no readiness timeout, and two enqueue
\* requests in quick succession.
BackToBackNext ==
  \/ InitializeChannel
  \/ PlayAdTimer \/ PlayNextTimer \/ PreloadTimer \/ AdReadyTimer \/ AdRetryTimer
  \/ PnmWaited \/ PnmPreloaded \/ PnmSwitchRetry \/ PnmProbed \/ PnmScheduled
  \/ StartBackToBack
  \/ JobScheduled \/ JobPrune \/ JobPreload \/ JobPreloaded \/ JobPlay
  \/ FFmpegWrite \/ MovieEnd \/ ExitEvent \/ DetectorReady \/ PreloadDeadline

BackToBackSpec == AdLoopInit /\ [][BackToBackNext]_vars

\* The channel restarted with one movie left in its persisted queue; another
\* movie may arrive by request at any moment.
DrainInit ==
  /\ state = InitState
  /\ channel = [queue |-> <<1>>, schedule |-> <<>>, currentMovie |-> NoMovie]
  /\ jobs = [m \in Movies |-> [pc |-> IF m = 1 THEN "initial" ELSE "none",
                               pre |-> NoProc, cur |-> NoMovie]]
  /\ inputs = [ad |-> "ok", movie |-> [m \in Movies |-> "ok"], noTitle |-> {}]
  /\ disk = channel
  /\ procs = <<>>
  /\ timers = [playAd |-> 0, playNext |-> 0, preload |-> 0, adReady |-> 0, adRetry |-> 0]
  /\ pnm = EmptyBag
  /\ init = [pc |-> "start", pre |-> NoProc]
  /\ files = [s \in Slots |-> NoFiles]
  /\ pub = NoPub
  /\ faults = 0

\* its events when every file is readable and no transcoder crashes
DrainNext ==
  \/ InitializeChannel \/ InitPreloaded \/ InitTimer2 \/ InitTimer3
  \/ PlayAdTimer \/ PlayNextTimer \/ PreloadTimer \/ AdReadyTimer \/ AdRetryTimer
  \/ PnmWaited \/ PnmPreloaded \/ PnmSwitchRetry \/ PnmProbed \/ PnmScheduled
  \/ StartJob \/ JobScheduled \/ JobPrune \/ JobPreload \/ JobPreloaded \/ JobPlay
  \/ FFmpegWrite \/ MovieEnd \/ ExitEvent \/ DetectorReady \/ PreloadDeadline

DrainSpec == DrainInit /\ [][DrainNext]_vars

\* ------------------------------------------------ the projector on its own
\* instants of the call: 12:00:00, 23:59:30, 23:59:39.5 and 23:59:55 (WAT)
Nows == {39600000, 82770000, 82779500, 82795000}
\* probed durations: 20 s, 90 s
Durations == {20000, 90000}
\* the movie that is playing, if any: started 82,700,000, ends 82,790,000
CurrentInfos == {NoInfo, [title |-> MaxSchedQueue + 1, startTime |-> 82700000,
                          endTime |-> 82790000]}
ScheduleQueues ==
  UNION {[1..n -> Durations] : n \in 0..MaxSchedQueue}
  \cup {[i \in 1..(ScheduleRows + 1) |-> 20000]}
TitledQueue(ds) == [i \in 1..Len(ds) |-> [title |-> i, duration |-> ds[i]]]

\* a channel with some queue and current movie; nothing else is running
ScheduleInit ==
  /\ \E ds \in ScheduleQueues, cur \in CurrentInfos :
       channel = [queue |-> TitledQueue(ds), schedule |-> <<>>,
                  currentMovie |-> cur.title,
                  currentStartTime |-> cur.startTime,
                  currentEndTime |-> cur.endTime]
  /\ state = InitState
  /\ disk = channel
  /\ procs = <<>>
  /\ timers = [playAd |-> 0, playNext |-> 0, preload |-> 0, adReady |-> 0, adRetry |-> 0]
  /\ pnm = EmptyBag
  /\ jobs = [m \in Movies |-> [pc |-> "none", pre |-> NoProc, cur |-> NoMovie]]
  /\ init = [pc |-> "done", pre |-> NoProc]
  /\ files = [s \in Slots |-> NoFiles]
  /\ pub = NoPub
  /\ inputs = [ad |-> "ok", movie |-> [m \in Movies |-> "ok"], noTitle |-> {}]
  /\ faults = 0

\* const currentInfo = channels[channelId].currentStartTime ? {...} : null
currentInfo(ch) ==
  IF ch.currentMovie = NoMovie THEN NoInfo
  ELSE [title |-> ch.currentMovie, startTime |-> ch.currentStartTime,
        endTime |-> ch.currentEndTime]

\* channels[channelId].schedule = await generateDynamicSchedule(...)
ProjectSchedule ==
  \E now \in Nows :
    /\ channel' = [channel EXCEPT
                     !.schedule = generateDynamicScheduleAt(now, channel.queue,
                                                            currentInfo(channel))]
    /\ UNCHANGED <<state, disk, procs, timers, pnm, jobs, init, files, pub, inputs,
                   faults>>

ScheduleSpec == ScheduleInit /\ [][ProjectSchedule]_vars

\* ------------------------------------- the publisher and the detector alone
\* What checkSegmentsReady and switchActiveStream find in the output
\* directory is an input: the playlists of the slot (absent, empty or
\* written), the run of segment numbers the stream playlist lists, and the
\* size of each segment file (0: absent; at the threshold; above it).
ObsSegNums == 0..(MaxListed - 1)
ObsSizes == {0, MinSegmentBytes, MinSegmentBytes + 1}
ObsLists ==
  {[i \in 1..k |-> a + i - 1] : <<a, k>> \in
     {x \in ObsSegNums \X (0..MaxListed) : x[1] + x[2] <= MaxListed}}
Observations ==
  {f \in [master : {"none", "empty", "ok"}, stream : {"none", "empty", "ok"},
          list : ObsLists, segs : [ObsSegNums -> ObsSizes]] :
     f.stream # "ok" => f.list = <<>>}
\* master.m3u8 and stream.m3u8 as an earlier publication left them
PublishedBefore ==
  {NoPub} \cup {[master |-> s, stream |-> s, list |-> <<0, 1>>] : s \in Slots}

\* The ad loop of an empty channel: the ad's transcoder runs on slot A, and
\* its detector either still polls or has reported ready, in which case the
\* 3 s timer of the ad's onReady is pending.
ObservationInit ==
  /\ \E f \in Observations, p \in PublishedBefore, reported \in BOOLEAN :
       /\ files = [s \in Slots |-> IF s = "A" THEN f ELSE NoFiles]
       /\ pub = p
       /\ procs = <<[NewProc("A", "ad", NoMovie) EXCEPT
                       !.n = MaxAdSeg,
                       !.det = IF reported THEN "off" ELSE "poll"]>>
       /\ timers = [playAd |-> 0, playNext |-> 0, preload |-> 0,
                    adReady |-> IF reported THEN 1 ELSE 0, adRetry |-> 0]
  /\ state = [InitState EXCEPT !.isPlaying = TRUE, !.playingAd = TRUE,
                               !.currentProcess = 1]
  /\ channel = [queue |-> <<>>, schedule |-> <<>>, currentMovie |-> NoMovie]
  /\ disk = channel
  /\ pnm = EmptyBag
  /\ jobs = [m \in Movies |-> [pc |-> "none", pre |-> NoProc, cur |-> NoMovie]]
  /\ init = [pc |-> "done", pre |-> NoProc]
  /\ inputs = [ad |-> "ok", movie |-> [m \in Movies |-> "ok"], noTitle |-> {}]
  /\ faults = 0

ObservationNext ==
  DetectorReady \/ DetectorTimeout \/ AdReadyTimer \/ AdRetryTimer

ObservationSpec == ObservationInit /\ [][ObservationNext]_vars

\* ------------------------------------------------------------ observations
Alive(p) == procs[p].st = "running"
\* no invocation is suspended, no timer is pending, no child is left: nothing
\* will run until the next request
Idle ==
  /\ init.pc = "done"
  /\ \A k \in DOMAIN timers : timers[k] = 0
  /\ pnm = EmptyBag
  /\ \A m \in Movies : jobs[m].pc \in {"none", "initial", "done"}
  /\ \A p \in Pids : procs[p].st = "exited" /\ ~procs[p].deadline

\* ------------------------------------------------------------------ claims
\* C1: slot parity - in every reachable state activeSlot differs from nextSlot
\* and the two together are A and B.
C1_SlotParity ==
  /\ state.activeSlot # state.nextSlot
  /\ {state.activeSlot, state.nextSlot} = Slots
\* a playNextMovie has swapped the slots and is suspended while a second
\* invocation is suspended as well
C1_Witness ==
  /\ state.activeSlot = "B" /\ state.nextSlot = "A"
  /\ BagCardinality(pnm) >= 2
  /\ \E r \in BagToSet(pnm) : r.pc \in {"switch", "probe", "sched"}

\* C2: at most one transcoder per slot is alive at any moment - no two live
\* children were spawned on the same slot.
C2_OneTranscoderPerSlot ==
  \A p, q \in Pids :
    (p # q /\ Alive(p) /\ Alive(q)) => procs[p].slot # procs[q].slot

\* C3: in every reachable state playingAd implies isPlaying.
C3_PlayingAdImpliesIsPlaying == state.playingAd => state.isPlaying

\* C4: whenever the public playlists exist, the public stream playlist lists
\* at least two segments and every listed segment file is on disk with at
\* least 5000 bytes.
C4_PublicPlaylistPlayable ==
  (pub.master # "none" /\ pub.stream # "none") =>
    /\ Len(pub.list) >= 2
    /\ \A i \in 1..Len(pub.list) :
         files[pub.stream].segs[pub.list[i]] >= MinSegmentBytes

\* C5: every write of the public playlists is a copy of the per-slot playlists
\* of one slot S, made in the step in which the files of S pass the
\* verification: both playlists exist and are non-empty, at least two
\* segments are referenced, and at least two of the first three referenced
\* segments are on disk and large enough.
C5_Playable(f) ==
  /\ f.master = "ok" /\ f.stream = "ok"
  /\ Len(f.list) >= 2
  /\ Cardinality({i \in 1..Min(3, Len(f.list)) :
                    f.segs[f.list[i]] > MinSegmentBytes}) >= 2
C5_PublishIsVerifiedCopy ==
  [][pub' # pub =>
       \E S \in Slots :
         /\ C5_Playable(files[S])
         /\ files' = files
         /\ pub' = [master |-> S, stream |-> S, list |-> files[S].list]]_vars
\* the public playlists are a copy of slot B, published by a playNextMovie
C5_Witness ==
  /\ pub.master = "B" /\ pub.stream = "B" /\ pub.list = files["B"].list
  /\ \E r \in BagToSet(pnm) : r.pc = "probe"

\* C6: within playNextMovie the head is removed last, so at every point of a
\* transition after its swap and before its final write the catalog on disk
\* has the movie being started at the head of its queue (a restart finds it
\* there).  Enqueues whose write is still outstanding are left aside.
C6_HeadPersistedUntilShift ==
  (\A m \in Movies : jobs[m].pc # "sched") =>
    \A r \in BagToSet(pnm) :
      r.pc \in {"switch", "probe", "sched"} =>
        disk.queue # <<>> /\ Head(disk.queue) = r.movie

\* C7: after any completed enqueue or head consumption the queue in the
\* catalog file equals the queue in memory (an enqueue is completed when its
\* job has written the catalog).
C7_QueuePersisted ==
  (\A m \in Movies : jobs[m].pc # "sched") => disk.queue = channel.queue
\* movie m was enqueued by a request and then consumed by playNextMovie
C7_Witness ==
  \E m \in Movies :
    /\ jobs[m].pc \notin {"none", "initial", "sched"}
    /\ channel.currentMovie = m
    /\ channel.queue = <<>> /\ disk.queue = <<>>

\* C8: ad self-restart - when the ad transcoder exits or fails to start while
\* the queue is empty, a new ad transcoder is spawned after the back-off; so
\* with an empty queue the channel never comes to rest without a transcoder.
C8_AdLoopRestarts == ~(Idle /\ channel.queue = <<>>)

\* C9: missing movie input - a head movie whose file is absent or unreadable
\* is removed from the queue and the controller proceeds; so the channel
\* never comes to rest with such a movie at the head of the queue.
C9_MissingHeadRemoved ==
  ~(Idle /\ channel.queue # <<>> /\ inputs.movie[Head(channel.queue)] # "ok")

\* C10: first enqueue replaces the ad - one movie enqueued while the ad plays
\* and the queue is empty eventually is the current movie, with playingAd
\* false, isPlaying true and the queue empty; unless a movie transcoder exits
\* while the movie is still queued (its output was never ready, or the movie
\* was over before the transition had removed it from the queue), or another
\* movie is enqueued as well.
C10_Enqueued(m) ==
  /\ jobs[m].pc = "sched" /\ m \notin inputs.noTitle
  /\ channel.queue = <<m>> /\ state.playingAd /\ state.isPlaying
C10_Playing(m) ==
  /\ channel.currentMovie = m /\ ~state.playingAd /\ state.isPlaying
  /\ channel.queue = <<>>
C10_Excused(m) ==
  \/ /\ channel.queue # <<>>
     /\ \E p \in Pids : procs[p].st = "exited" /\ procs[p].kind = "movie"
  \/ \E k \in Movies \ {m} : jobs[k].pc # "none"
C11_BackToBackPlays ==
  ~(/\ \A m \in Movies : jobs[m].pc = "done"
    /\ channel.queue = [i \in 1..MaxMovies |-> i]
    /\ channel.currentMovie = NoMovie
    /\ state.playingAd /\ state.isPlaying
    /\ state.currentProcess # NoProc /\ Alive(state.currentProcess)
    /\ \A k \in DOMAIN timers : timers[k] = 0
    /\ pnm = EmptyBag /\ ~KillPending
    /\ \A p \in Pids : procs[p].kind = "ad" /\ procs[p].det = "off")

\* C12: startup with a non-empty queue - once initializeChannel has run on a
\* channel whose persisted queue is non-empty, the channel does not remain
\* with isPlaying false, no transcoder running and no retry pending.
C12_StartupLeavesIdle ==
  (init.pc = "done" /\ disk.queue # <<>> /\ \A m \in Movies : jobs[m].pc = "initial")
    => (state.isPlaying \/ ~Idle)

\* C13: empty start - the step of initializeChannel on a channel with an
\* empty queue and the ad file in place leaves activeSlot = A, nextSlot = B,
\* playingAd and isPlaying true, one transcoder, spawned on slot A on the
\* looping ad and held as currentProcess, and currentMovie null.
C13_EmptyStart ==
  [][(init.pc = "start" /\ channel.queue = <<>> /\ inputs.ad = "ok") =>
       /\ state'.activeSlot = "A" /\ state'.nextSlot = "B"
       /\ state'.playingAd /\ state'.isPlaying
       /\ Len(procs') = 1 /\ state'.currentProcess = 1
       /\ procs'[1].kind = "ad" /\ procs'[1].slot = "A" /\ procs'[1].st = "running"
       /\ channel'.currentMovie = NoMovie]_vars
\* initializeChannel has just started the ad on the empty channel
C13_Witness ==
  /\ init.pc = "done" /\ channel.queue = <<>> /\ channel.currentMovie = NoMovie
  /\ Len(procs) = 1 /\ procs[1].kind = "ad" /\ procs[1].n = 0 /\ Alive(1)
  /\ state.currentProcess = 1 /\ state.playingAd /\ state.isPlaying
  /\ \A m \in Movies : jobs[m].pc = "none"

\* C14: return to the ad loop - when a movie is playing, the queue is empty
\* and the transcoder of the current movie has exited, the channel eventually
\* has playingAd and isPlaying true with an ad transcoder alive on the active
\* slot (in a run in which one more transcoder can be spawned), unless a
\* movie is enqueued meanwhile.
C14_MovieOver ==
  /\ Len(procs) < MaxProcs
  /\ channel.queue = <<>> /\ channel.currentMovie # NoMovie
  /\ ~state.playingAd
  /\ state.currentProcess # NoProc
  /\ procs[state.currentProcess].kind = "movie"
  /\ procs[state.currentProcess].st = "exited"
C14_AdLoop ==
  /\ state.playingAd /\ state.isPlaying
  /\ state.currentProcess # NoProc
  /\ Alive(state.currentProcess)
  /\ procs[state.currentProcess].kind = "ad"
  /\ procs[state.currentProcess].slot = state.activeSlot
C14_ReturnToAdLoop == C14_MovieOver ~> (C14_AdLoop \/ channel.queue # <<>>)
\* the ad runs again after a movie was played to its end
C14_Witness ==
  /\ C14_AdLoop /\ channel.currentMovie # NoMovie
  /\ \E p \in Pids : procs[p].kind = "movie" /\ procs[p].st = "exited"
  /\ Len(procs) = MaxProcs

\* C15: an enqueue leaves the engine alone unless it is the first item during
\* the ad loop - the append itself changes no runtime state, kills and spawns
\* nothing; and if after the append the queue length is not 1 or playingAd is
\* false, this is still so when the job makes its test, and the job then ends
\* having changed only the schedule and the catalog file: no transcoder is
\* killed or spawned, no timer set, no runtime flag or slot changed.
C15_NotFirst == Len(channel.queue) # 1 \/ ~state.playingAd
C15_EnqueueLeavesEngine ==
  [][\A m \in Movies :
       /\ (jobs[m].pc = "none" /\ jobs'[m].pc # "none") =>
            /\ state' = state /\ procs' = procs /\ timers' = timers /\ pnm' = pnm
            /\ channel'.queue = Append(channel.queue, m)
       /\ (jobs[m].pc = "sched" /\ C15_NotFirst) =>
            IF jobs'[m].pc = "sched"
            THEN C15_NotFirst'
            ELSE /\ jobs'[m].pc = "done"
                 /\ state' = state /\ procs' = procs /\ timers' = timers /\ pnm' = pnm
                 /\ files' = files /\ pub' = pub
                 /\ channel'.queue = channel.queue
                 /\ disk' = channel']_vars
\* the second movie was enqueued behind the first while that one is playing,
\* and its job has ended
C15_Witness ==
  /\ jobs[MaxMovies].pc = "done"
  /\ Len(channel.queue) = 2 /\ channel.queue[2] = MaxMovies
  /\ ~state.playingAd /\ state.isPlaying
  /\ state.currentProcess # NoProc /\ procs[state.currentProcess].kind = "movie"

\* C16: at most one controller action is outstanding - the suspended
\* playNextMovie invocations and the first-enqueue transitions that have
\* passed their test and not yet ended are never more than one together.
C16_Outstanding ==
  BagCardinality(pnm)
  + Cardinality({m \in Movies :
                   jobs[m].pc \in {"wait3", "wait2", "awaitPreload", "wait8"}})
C16_OneActionOutstanding == C16_Outstanding <= 1

\* C17: concurrent preloads collapse to one - while a preloadNextMovie
\* invocation has not returned (its promise is unresolved and its deadline
\* has not passed), no other invocation spawns a transcoder; so at most one
\* spawned preload is unreturned at any time.
C17_Unreturned ==
  {p \in Pids : procs[p].kind = "movie" /\ procs[p].res = "no" /\ procs[p].deadline}
C17_SinglePreload == Cardinality(C17_Unreturned) <= 1

\* C18: every preloadNextMovie invocation returns no later than its overall
\* deadline - once the 25 s deadline timer of a spawned preload has fired,
\* its promise is resolved.
C18_PreloadReturns ==
  \A p \in Pids :
    (procs[p].kind = "movie" /\ ~procs[p].deadline) => procs[p].res # "no"

\* C19: in every reachable state preloadReady implies not isPreloading.
C19_ReadyNotPreloading == state.preloadReady => ~state.isPreloading

\* C20: whenever preloadReady is set to true, by the detector's ready
\* callback or by the deadline's manual check, nextProcess is non-null in
\* the state that results.
C20_ReadyHasNextProcess ==
  [][(~state.preloadReady /\ state'.preloadReady) =>
       state'.nextProcess # NoProc]_vars

\* C21: ad readiness timeout - an ad transcoder whose output did not become
\* playable before the detector's deadline is restarted after 5 s; so no ad
\* transcoder keeps running with its detector stopped, no output on its slot
\* and no playAd, publication or retry timer pending.
C21_AdTimeoutRestarts ==
  \A p \in Pids :
    ~(/\ procs[p].kind = "ad" /\ Alive(p)
      /\ procs[p].det = "off" /\ procs[p].n = 0
      /\ files[procs[p].slot] = NoFiles
      /\ pub = NoPub
      /\ timers.playAd = 0 /\ timers.adReady = 0 /\ timers.adRetry = 0)

\* C22: schedule monotonicity (amended) - in every schedule the projector
\* produces, the current entry, if any, is the first row and the only row
\* marked current, there are at most 10 upcoming rows, each upcoming row
\* starts exactly 1 s after the instant the previous row ends, and the
\* startTime / endTime of a row are those instants printed as HH:MM.
C22_Upcoming == {i \in 1..Len(channel.schedule) : ~channel.schedule[i].current}
C22_ScheduleMonotone ==
  LET s == channel.schedule
  IN /\ \A i \in 1..Len(s) : s[i].current => i = 1
     /\ Cardinality(C22_Upcoming) <= ScheduleRows
     /\ \A i \in 1..Len(s) :
          /\ s[i].startTime = formatWATTime(s[i].startAt)
          /\ s[i].endTime = formatWATTime(s[i].endAt)
     /\ \A i \in 1..(Len(s) - 1) : s[i + 1].startAt = s[i].endAt + ScheduleGapMs
\* C22 as stated, read on the rows of the schedule: the printed start of a
\* row is not before the printed end of the row above it.
C22_Printed(t) == t.hh * MinutesPerHour + t.mm
C22_PrintedMonotone ==
  \A i \in 1..(Len(channel.schedule) - 1) :
    C22_Printed(channel.schedule[i + 1].startTime)
      >= C22_Printed(channel.schedule[i].endTime)
\* a schedule with the current movie and the most upcoming rows there can be
C22_Witness ==
  /\ Len(channel.schedule) = ScheduleRows + 1
  /\ channel.schedule[1].current
  /\ Len(channel.queue) > ScheduleRows

\* C23: playNextMovie swaps activeSlot and nextSlot only in a state where
\* preloadReady is true - every step that changes activeSlot starts in a
\* state with preloadReady true, and promotes the nextProcess of that state
\* to currentProcess.
C23_SwapOnlyWhenReady ==
  [][state'.activeSlot # state.activeSlot =>
       /\ state.preloadReady
       /\ state'.currentProcess = state.nextProcess]_vars
\* the slots were swapped twice: the current movie runs on slot A
C23_Witness ==
  /\ state.activeSlot = "A" /\ state.currentProcess # NoProc
  /\ procs[state.currentProcess].kind = "movie"
  /\ procs[state.currentProcess].slot = "A"
  /\ Alive(state.currentProcess)

\* C24: a playNextMovie attempt that cannot obtain a ready preload - the
\* forced preload returns false, or the preload in flight is still not ready
\* after the 3 s wait - leaves activeSlot, nextSlot, currentProcess, the
\* queue, currentMovie and the public playlists unchanged and schedules
\* exactly one retry of playNextMovie.
C24_ForcedFails ==
  /\ PlayNextTimer
  /\ channel.queue # <<>> /\ HeadMovie(World) \notin inputs.noTitle
  /\ ~state.preloadReady /\ state.nextProcess = NoProc
  /\ preloadNextMovie(Fire("playNext")).ret = "false"
C24_AwaitFails ==
  \E r \in BagToSet(pnm) :
    /\ r.pc = "awaitPreload" /\ Resolved(r.pre)
    /\ procs[r.pre].res # "true" \/ ~state.preloadReady
    /\ Commit(pnmPreloaded(resume(World, r), r.movie, procs[r.pre].res = "true"))
C24_WaitFails == PnmWaited /\ ~state.preloadReady
C24_Frame ==
  /\ state'.activeSlot = state.activeSlot /\ state'.nextSlot = state.nextSlot
  /\ state'.currentProcess = state.currentProcess
  /\ channel'.queue = channel.queue
  /\ channel'.currentMovie = channel.currentMovie
  /\ pub' = pub
C24_FailedAttemptFrame ==
  [][C24_ForcedFails \/ C24_AwaitFails \/ C24_WaitFails => C24_Frame]_vars
C24_FailedAttemptRetriesOnce ==
  [][/\ C24_ForcedFails => C24_Frame /\ timers'.playNext = timers.playNext
     /\ C24_AwaitFails \/ C24_WaitFails =>
          C24_Frame /\ timers'.playNext = timers.playNext + 1]_vars

\* C25: in playNextMovie the publication of the new active slot is attempted
\* at most SwitchAttempts times and no further attempt follows a success;
\* whether or not an attempt succeeded the transition then completes:
\* currentMovie is set, the schedule is regenerated, the head is shifted off
\* the queue and the catalog is persisted.
C25_Left(r) == CopiesIn(r, pnm') < CopiesIn(r, pnm)
C25_Entered(r) == CopiesIn(r, pnm') > CopiesIn(r, pnm)
C25_Probing(m) == [pc |-> "probe", movie |-> m, pre |-> NoProc, att |-> 0]
C25_Scheduling(m) == [pc |-> "sched", movie |-> m, pre |-> NoProc, att |-> 0]
C25_Finished(m) ==
  /\ channel'.schedule = generateDynamicSchedule(World, m)
  /\ channel'.queue = (IF channel.queue = <<>> THEN <<>> ELSE Tail(channel.queue))
  /\ disk' = channel'
C25_Attempts ==
  /\ \A r \in BagToSet(pnm') :
       r.pc = "switch" /\ C25_Entered(r) =>
         /\ r.att \in 1..SwitchAttempts
         /\ ~SlotVerified(files[state'.activeSlot])
         /\ pub' = pub
  /\ \A r \in BagToSet(pnm) :
       r.pc = "switch" /\ r.att = SwitchAttempts /\ C25_Left(r) =>
         pub' = pub /\ C25_Entered(C25_Probing(r.movie))
C25_Completion ==
  \A r \in BagToSet(pnm) :
    /\ r.pc = "probe" /\ C25_Left(r) =>
         /\ channel'.currentMovie = r.movie
         /\ C25_Entered(C25_Scheduling(r.movie)) \/ C25_Finished(r.movie)
    /\ r.pc = "sched" /\ C25_Left(r) => C25_Finished(r.movie)
C25_Midway == \E r \in BagToSet(pnm) : r.pc \in {"switch", "probe", "sched"}
C25_AllFailed == \E r \in BagToSet(pnm) : r.pc = "switch" /\ r.att = SwitchAttempts
C25_Done ==
  /\ ~C25_Midway
  /\ channel.currentMovie # NoMovie
  /\ disk = channel
\* the model can take no step at all: a pending callback would exceed a bound
C25_AtBound ==
  /\ ~ENABLED LiveNext
  /\ \/ Len(procs) = MaxProcs \/ BagCardinality(pnm) = MaxPNM
     \/ \E k \in DOMAIN timers : timers[k] = MaxTimers
C25_TransitionCompletes ==
  /\ [][C25_Attempts /\ C25_Completion]_vars
  /\ C25_Midway ~> (C25_Done \/ C25_AtBound)
\* the three attempts failed and the transition is complete: the movie is
\* current and nothing of its slot is published
C25_Witness ==
  /\ C25_Done /\ state.isPlaying /\ ~state.playingAd
  /\ pub # NoPub /\ pub.master # state.activeSlot

\* C26: if the publication failed in every attempt of a playNextMovie, the
\* public playlists are republished from the active slot while that movie is
\* still playing - a movie that is current on the active slot, with its
\* transition complete and the public playlists not those of its slot, does
\* not stop playing in that condition.
C26_Stale(p) ==
  /\ ~C25_Midway
  /\ state.currentProcess = p /\ procs[p].kind = "movie" /\ procs[p].st = "running"
  /\ procs[p].slot = state.activeSlot
  /\ channel.currentMovie = procs[p].movie
  /\ pub.master # state.activeSlot
C26_RepublishedWhilePlaying ==
  [][\A p \in Pids : C26_Stale(p) => procs'[p].st = "running"]_vars
\* the public playlists change only in the ad's publication timers and in
\* the publication loop of a playNextMovie, which ends in the probe
C26_PublishedOnlyInTransition ==
  [][pub' # pub =>
       \/ timers'.adReady < timers.adReady
       \/ timers'.adRetry < timers.adRetry
       \/ \E m \in Movies : C25_Entered(C25_Probing(m))]_vars

\* C27: when a verification step of switchActiveStream fails for the slot -
\* a playlist of the slot missing or empty, fewer than two segments
\* referenced, fewer than two valid segments among the first three - the call
\* returns false (the ad's onReady schedules its retry) and the public
\* playlists are left exactly as they were.
C27_VerificationFails(f) ==
  \/ f.master # "ok" \/ f.stream # "ok"
  \/ Len(f.list) < PublishMinSegments
  \/ CountValid(f.segs, Take(f.list, PublishCheckFirst)) < PublishMinSegments
C27_FailureLeavesPublic ==
  [][C27_VerificationFails(files[state.activeSlot]) =>
       /\ AdReadyTimer => pub' = pub /\ timers'.adRetry = timers.adRetry + 1
       /\ AdRetryTimer => pub' = pub]_vars
\* both attempts of the ad failed on segments that are too small, and the
\* playlists published earlier from the other slot are still there
C27_Witness ==
  /\ procs[1].det = "off" /\ timers.adReady = 0 /\ timers.adRetry = 0
  /\ files["A"].master = "ok" /\ files["A"].stream = "ok"
  /\ Len(files["A"].list) >= PublishMinSegments
  /\ C27_VerificationFails(files["A"])
  /\ faults = 0
  /\ pub = [master |-> "B", stream |-> "B", list |-> <<0, 1>>]

\* C28: switchActiveStream counts a referenced segment as valid iff it exists
\* and is larger than MinSegmentBytes (a segment of exactly MinSegmentBytes
\* is not valid), and its third step passes iff at least two of the first
\* three referenced segments are valid.
C28_Referenced(f) == Take(f.list, PublishCheckFirst)
C28_Valid(f, min) ==
  {i \in 1..Len(C28_Referenced(f)) : f.segs[C28_Referenced(f)[i]] >= min}
C28_PlaylistsPass(f) ==
  f.master = "ok" /\ f.stream = "ok" /\ Len(f.list) >= PublishMinSegments
C28_Published ==
  /\ timers'.adRetry = timers.adRetry
  /\ pub' = PublicCopy(state.activeSlot, files[state.activeSlot])
C28_ValidAbove5000 ==
  [][AdReadyTimer /\ C28_PlaylistsPass(files[state.activeSlot]) =>
       (C28_Published <=>
          Cardinality(C28_Valid(files[state.activeSlot], MinSegmentBytes + 1))
            >= PublishMinSegments)]_vars
\* C28 as stated: a segment of at least MinSegmentBytes is valid
C28_ValidFrom5000 ==
  [][AdReadyTimer /\ C28_PlaylistsPass(files[state.activeSlot]) =>
       (C28_Published <=>
          Cardinality(C28_Valid(files[state.activeSlot], MinSegmentBytes))
            >= PublishMinSegments)]_vars
\* three segments referenced, one of exactly MinSegmentBytes, published
C28_Witness ==
  /\ procs[1].det = "off" /\ timers.adReady = 0 /\ timers.adRetry = 0
  /\ Len(files["A"].list) = PublishCheckFirst
  /\ \E i \in 1..PublishCheckFirst : files["A"].segs[files["A"].list[i]] = MinSegmentBytes
  /\ pub = PublicCopy("A", files["A"])

\* C29: the detector reports a slot ready exactly on an observation where
\* the master and stream playlists of the slot exist and are not empty, the
\* stream playlist lists at least REQUIRED_SEGMENTS segments, and the first
\* REQUIRED_SEGMENTS listed segments exist and are larger than MinSegmentBytes.
C29_Playlists(f) ==
  f.master = "ok" /\ f.stream = "ok" /\ Len(f.list) >= REQUIRED_SEGMENTS
C29_FirstListedValid(f) ==
  \A i \in 1..REQUIRED_SEGMENTS : f.segs[f.list[i]] > MinSegmentBytes
C29_AllListedValid(f) ==
  \A i \in 1..Len(f.list) : f.segs[f.list[i]] > MinSegmentBytes
C29_Observed(p) == files[procs[p].slot]
C29_Reported == timers'.adReady = timers.adReady + 1
C29_VerdictIsFirstListed ==
  [][\A p \in Pids :
       /\ DetectorReady /\ procs[p].det = "poll" =>
            C29_Reported /\ C29_Playlists(C29_Observed(p))
                         /\ C29_FirstListedValid(C29_Observed(p))
       /\ DetectorTimeout /\ procs[p].det = "poll" =>
            (C29_Reported <=> /\ C29_Playlists(C29_Observed(p))
                              /\ C29_FirstListedValid(C29_Observed(p)))]_vars
\* C29 as stated: every listed segment is larger than MinSegmentBytes
C29_VerdictIsAllListed ==
  [][\A p \in Pids :
       /\ DetectorReady /\ procs[p].det = "poll" =>
            C29_Reported /\ C29_Playlists(C29_Observed(p))
                         /\ C29_AllListedValid(C29_Observed(p))
       /\ DetectorTimeout /\ procs[p].det = "poll" =>
            (C29_Reported <=> /\ C29_Playlists(C29_Observed(p))
                              /\ C29_AllListedValid(C29_Observed(p)))]_vars
\* the final check reported ready although a listed segment is too small
C29_Witness ==
  /\ faults = 1 /\ procs[1].det = "off" /\ timers.adReady = 1
  /\ \E i \in 1..Len(files["A"].list) :
       files["A"].segs[files["A"].list[i]] <= MinSegmentBytes

\* C30: on the first enqueue during the ad loop no movie transcoder is
\* spawned between the kill of the ad and the completion of the pruning of
\* the output directory - no step taken while the job waits to prune adds a
\* movie child.
C30_AwaitingPrune == \E m \in Movies : jobs[m].pc = "wait3"
C30_PruneBeforeSpawn ==
  [][C30_AwaitingPrune =>
       \A p \in (DOMAIN procs') \ (DOMAIN procs) : procs'[p].kind # "movie"]_vars

\* C31: the movie a completed playNextMovie removes from the queue is the
\* movie it captured as head and stored as currentMovie - the step in which
\* a suspended invocation shifts the queue finds its own movie at the head.
C31_Completes(r) ==
  /\ r.pc \in {"probe", "sched"}
  /\ CopiesIn(r, pnm') < CopiesIn(r, pnm)
  /\ Len(channel'.queue) < Len(channel.queue)
C31_ShiftsOwnMovie ==
  [][\A r \in BagToSet(pnm) : C31_Completes(r) => Head(channel.queue) = r.movie]_vars

\* C32: whenever preloadReady is true (and the queue has a head), the
\* transcoder held as nextProcess was spawned for the movie that is at the
\* head of the queue - not for the movie that is already playing.
C32_ReadyForHead ==
  /\ state.preloadReady /\ channel.queue # <<>>
  /\ state.nextProcess # NoProc /\ Alive(state.nextProcess)
  => procs[state.nextProcess].movie = Head(channel.queue)

\* C33: a failure of the preload transcoder does not disturb the movie that
\* is playing - in the step in which the transcoder held as nextProcess exits
\* while the current movie's transcoder is alive on the active slot,
\* isPlaying stays true.
C33_MoviePlaying ==
  /\ state.currentProcess # NoProc /\ Alive(state.currentProcess)
  /\ procs[state.currentProcess].kind = "movie"
  /\ procs[state.currentProcess].slot = state.activeSlot
  /\ state.isPlaying /\ ~state.playingAd
C33_PreloadExits ==
  /\ state.nextProcess # NoProc /\ state.nextProcess # state.currentProcess
  /\ procs[state.nextProcess].st = "running"
  /\ procs'[state.nextProcess].st = "exited"
C33_PreloadFailureIsolated ==
  [][C33_MoviePlaying /\ C33_PreloadExits => state'.isPlaying]_vars

\* C34: after playNextMovie has swapped to a movie whose transcoder is
\* running on the promoted slot, currentProcess is non-null and is the live
\* transcoder writing the active slot; and the step
\* in which the playing movie's transcoder exits leaves nextProcess, the
\* reference to the next movie's live preload transcoder, as it was.
C34_Swaps ==
  /\ state'.activeSlot # state.activeSlot /\ ~state'.playingAd
  /\ \E p \in Pids : /\ procs[p].st = "running" /\ procs'[p].st = "running"
                     /\ procs[p].kind = "movie" /\ procs[p].slot = state.nextSlot
C34_CurrentExits ==
  /\ state.currentProcess # NoProc /\ state.nextProcess # NoProc
  /\ state.nextProcess # state.currentProcess
  /\ procs[state.currentProcess].st = "running"
  /\ procs'[state.currentProcess].st = "exited"
  /\ procs'[state.nextProcess].st = "running"
C34_SwapHoldsLiveProcess ==
  [][/\ C34_Swaps =>
          /\ state'.currentProcess # NoProc
          /\ procs'[state'.currentProcess].st = "running"
          /\ procs'[state'.currentProcess].slot = state'.activeSlot
     /\ C34_CurrentExits => state'.nextProcess = state.nextProcess]_vars

\* C35: each enqueued movie is started at most once - no step spawns a movie
\* transcoder for the movie that is already stored as currentMovie while the
\* controller holds the transcoder that was promoted for it (every movie is
\* enqueued once).
C35_Spawned(p) ==
  /\ p \in DOMAIN procs' /\ procs'[p].st = "running" /\ procs'[p].kind = "movie"
  /\ p \in DOMAIN procs => procs[p].st # "running"
C35_SpawnedOnce ==
  [][\A p \in DOMAIN procs' :
       C35_Spawned(p) /\ state.currentProcess # NoProc =>
         channel.currentMovie # procs'[p].movie]_vars

\* C36: no stuck state - an initialized channel that has played a movie and
\* whose queue holds a movie added by a finished enqueue request has a live
\* transcoder, or a playAd,
\* playNextMovie or preloadNextMovie invocation in flight or scheduled by a
\* timer.
C36_InFlight ==
  \/ \E p \in Pids : Alive(p) \/ procs[p].deadline
  \/ \E k \in DOMAIN timers : timers[k] > 0
  \/ pnm # EmptyBag
  \/ \E m \in Movies : jobs[m].pc \notin {"none", "initial", "done"}
C36_Enqueued ==
  /\ init.pc = "done" /\ channel.queue # <<>>
  /\ jobs[Head(channel.queue)].pc = "done"
  /\ channel.currentMovie \notin {NoMovie, Head(channel.queue)}
C36_NoStuckState == C36_Enqueued => C36_InFlight

\* C37: whenever playingAd is true, currentMovie is null - the channel never
\* names a movie as current while the ad loop is running.
C37_AdHasNoCurrentMovie == state.playingAd => channel.currentMovie = NoMovie

\* C38: when playNextMovie completes, the stored schedule holds the movie now
\* playing exactly once, as the row marked current, followed by the rows of
\* the first (at most ScheduleRows) movies that remain in the queue after the
\* shift, in queue order.
C38_Completes(r) ==
  /\ r.pc \in {"probe", "sched"}
  /\ CopiesIn(r, pnm') < CopiesIn(r, pnm)
  /\ BagCardinality(pnm') < BagCardinality(pnm)
  /\ Len(channel'.queue) < Len(channel.queue)
C38_ScheduleAfterShift ==
  [][\A r \in BagToSet(pnm) :
       C38_Completes(r) =>
         channel'.schedule = <<[title |-> r.movie, current |-> TRUE]>>
                             \o Rows(Take(channel'.queue, ScheduleRows))]_vars

\* C39: retries do not multiply - while the movie at the head of the queue
\* has a file that is present but unreadable, so that its transcoder cannot
\* start, at most one playNextMovie timer is pending for the channel.
C39_HeadCannotStart ==
  /\ channel.queue # <<>>
  /\ inputs.movie[Head(channel.queue)] = "unreadable"
C39_OneRetryPending == C39_HeadCannotStart => timers.playNext <= 1

====
